---- MODULE Spec2Model ----
(***************************************************************************)
(* Verification model of cortexa-trade-ai: the daily scheduler             *)
(* (scheduler.py), the online trainer (src/online_crypto_trainer.py) and   *)
(* the backtest engine (src/crypto_model_backtest.py).                     *)
(*                                                                         *)
(* Nine specifications share the module:                                   *)
(*   Spec          the scheduler's poll loop and its trainer invocations   *)
(*   SpecCrash     the same, when the scheduler process may be killed      *)
(*   SpecLive      Spec with the process guaranteed to keep running        *)
(*   SpecTrainer   one trainer process (init / update) that may be killed  *)
(*   SpecIntraday  trainer runs on hourly bars within one day              *)
(*   SpecRace      two trainer processes started independently             *)
(*   SpecBacktest  label_future + backtest_with_cost_cap on price series   *)
(*   SpecLabeling  label_future_return, the take-profit/stop-loss labeler  *)
(*   SpecFeatures  build_features / make_features on a series and on the   *)
(*                 series with a later bar changed, then label_future      *)
(***************************************************************************)
EXTENDS Integers, Sequences, FiniteSets, TLC

VARIABLES
    \* ---- scheduler (scheduler.py) ----
    now,            \* wall clock read by now_local(): [date, tod]
    STOP,           \* the process-wide stop flag set by _handle_sig
    pcS,            \* position of main(): boot, startup, poll, batch, commit, cooldown, wait, exit
    idx,            \* 1-based position of the running `for sym in symbols` loop
    stateFile,      \* content of state/scheduler_state.json
    today_str,      \* main's local today_str of the current tick
    symbols,        \* main's local symbols of the current batch
    STARTUP_RUN,    \* env STARTUP_RUN
    SIGNAL_THRESH,  \* env SIGNAL_THRESH
    lastRun,        \* what the last run_once_for_symbol call did
    attempted,      \* history: per date string, symbols whose update the batch invoked
    failed,         \* history: per date string, symbols whose invocation failed in the batch
    skipped,        \* history: date strings on which a tick at the trigger time ran no batch
    batchRuns,      \* history: per date string, number of daily batches started
    \* ---- online trainer (src/online_crypto_trainer.py) ----
    today,          \* the UTC day index (2020-01-01 is day 0); bars exist for days < today
    interval,       \* --interval of the deployment, as bars per day: 1 for "1d", 24 for "1h"
    files,          \* per symbol: model.joblib, scaler.joblib, state.json under artifacts/<symbol>
    procs,          \* per trainer process: position in main / init_train / update_train and locals
    committed,      \* history: per symbol, the bundle the last successfully finished run left
    \* ---- backtest engine (src/crypto_model_backtest.py) ----
    bt,             \* the running backtest_with_cost_cap call: its arguments, locals and result
    \* ---- take-profit / stop-loss labeler (src/labeling.py) ----
    lb,             \* the running label_future_return call: its arguments, locals and result
    \* ---- feature pipelines (build_features, make_features) ----
    ft              \* a pipeline call on a bar series and on the series with a later bar changed

schedVars == <<now, STOP, pcS, idx, stateFile, today_str, symbols,
               STARTUP_RUN, SIGNAL_THRESH, lastRun, attempted, failed, skipped, batchRuns>>

trainVars == <<today, interval, files, procs, committed>>

btVars == <<bt>>

lbVars == <<lb>>

ftVars == <<ft>>

vars == <<schedVars, trainVars, btVars, lbVars, ftVars>>

(***************************************************************************)
(* Bounds                                                                  *)
(***************************************************************************)
\* calendar dates the clock runs through
MaxDate == 2
\* minutes of the modelled day (the real day has 1440)
MinutesPerDay == 3
\* longest trainer subprocess, in minutes
MaxRunMinutes == 2

Range(s) == {s[i] : i \in 1..Len(s)}

(***************************************************************************)
(* Scheduler: configuration and helpers                                    *)
(***************************************************************************)
\* RUN_AT: the trigger time-of-day, as the minute of the modelled day
RUN_AT == 1

\* COINS env, split on commas (read_symbols, first branch)
COINS_ENV == <<"BTC-USD", "ETH-USD">>

read_symbols == COINS_ENV

\* now.strftime("%Y-%m-%d")
DateTable == <<"2024-01-01", "2024-01-02", "2024-01-03", "2024-01-04", "2024-01-05">>

strftime(d) == DateTable[d]

DateStrs == Range(DateTable)

DefaultState == [last_run_date |-> "", done_symbols |-> <<>>]

\* load_state: the parsed JSON, or the default record when the file is
\* missing or unreadable
load_state(f) ==
    IF f.kind = "json"
    THEN [last_run_date |-> f.last_run_date, done_symbols |-> f.done_symbols]
    ELSE DefaultState

\* save_state: the file holds the JSON dump of the record
save_state(st) ==
    [kind |-> "json", last_run_date |-> st.last_run_date, done_symbols |-> st.done_symbols]

\* the clock k minutes later
Elapse(t, k) ==
    LET total == (t.date - 1) * MinutesPerDay + t.tod + k
    IN  [date |-> (total \div MinutesPerDay) + 1, tod |-> total % MinutesPerDay]

InHorizon(t) == t.date <= MaxDate

\* the trigger condition without the last_run_date test
ShouldTrigger_NoStateCheck(t, st) ==
    t.tod = RUN_AT

\* the trigger condition of the main loop
ShouldTrigger(t, st) ==
    /\ t.tod = RUN_AT
    /\ st.last_run_date # strftime(t.date)

(***************************************************************************)
(* Trainer command line                                                    *)
(***************************************************************************)
\* the options main() of the trainer declares with add_argument
TrainerOptions ==
    {"--mode", "--symbol", "--start", "--end", "--interval",
     "--horizon", "--threshold", "--artifacts"}

Opt(o, v) == [opt |-> o, val |-> v]

\* the cmd list built by run_once_for_symbol, as option/value pairs
BuildCmd(symbol, sigThresh) ==
    <<Opt("--mode", "update"), Opt("--symbol", symbol), Opt("--interval", "1d"),
      Opt("--horizon", "5"), Opt("--threshold", "0.03"), Opt("--artifacts", "artifacts"),
      Opt("--cost", "0.001"), Opt("--cap", "0.3")>>
    \o (IF sigThresh # "" THEN <<Opt("--signal-threshold", sigThresh)>> ELSE <<>>)

ArgVal(cmd, o, default) ==
    IF \E i \in 1..Len(cmd) : cmd[i].opt = o
    THEN cmd[CHOOSE i \in 1..Len(cmd) : cmd[i].opt = o].val
    ELSE default

\* ap.parse_args(): an undeclared option ends the process with status 2
\* (none of the scheduler's extra options abbreviates a declared one)
ParseArgs(cmd) ==
    IF \E i \in 1..Len(cmd) : cmd[i].opt \notin TrainerOptions
    THEN [ok |-> FALSE, mode |-> "", symbol |-> ""]
    ELSE [ok |-> TRUE,
          mode |-> ArgVal(cmd, "--mode", ""),
          symbol |-> ArgVal(cmd, "--symbol", "BTC-USD")]

\* exit status of the trainer process for a command line; upd is what the
\* update operation does once it is reached ("ok": returns, "fail": raises or
\* sys.exit(1))
TrainerExit(cmd, upd) ==
    LET a == ParseArgs(cmd)
    IN  IF ~a.ok
        THEN [rc |-> 2, executed |-> FALSE]
        ELSE [rc |-> IF upd = "ok" THEN 0 ELSE 1, executed |-> a.mode = "update"]

\* run_once_for_symbol without the try/except around subprocess.run
run_once_for_symbol_NoCatch(symbol, sigThresh, launch, upd) ==
    IF launch = "oserror"
    THEN [symbol |-> symbol, started |-> FALSE, rc |-> -1, executed |-> FALSE,
          notified |-> FALSE, raised |-> TRUE]
    ELSE LET x == TrainerExit(BuildCmd(symbol, sigThresh), upd)
         IN  [symbol |-> symbol, started |-> TRUE, rc |-> x.rc, executed |-> x.executed,
              notified |-> x.rc # 0, raised |-> FALSE]

\* run_once_for_symbol: launch is "ok" or "oserror" (subprocess.run raises)
run_once_for_symbol(symbol, sigThresh, launch, upd) ==
    IF launch = "oserror"
    THEN [symbol |-> symbol, started |-> FALSE, rc |-> -1, executed |-> FALSE,
          notified |-> TRUE, raised |-> FALSE]
    ELSE LET x == TrainerExit(BuildCmd(symbol, sigThresh), upd)
         IN  [symbol |-> symbol, started |-> TRUE, rc |-> x.rc, executed |-> x.executed,
              notified |-> x.rc # 0, raised |-> FALSE]

NoRun == [symbol |-> "", started |-> FALSE, rc |-> 0, executed |-> FALSE,
          notified |-> FALSE, raised |-> FALSE]

Launches == {"ok", "oserror"}
UpdateOutcomes == {"ok", "fail"}

(***************************************************************************)
(* Scheduler: initial states and actions                                   *)
(***************************************************************************)
\* the state file a starting process can find: none, an unreadable one, or
\* the record a completed batch of an earlier process left
InitStateFiles ==
    {[kind |-> "missing", last_run_date |-> "", done_symbols |-> <<>>],
     [kind |-> "corrupt", last_run_date |-> "", done_symbols |-> <<>>],
     save_state([last_run_date |-> strftime(1), done_symbols |-> read_symbols])}

InitSched ==
    /\ now \in {[date |-> 1, tod |-> t] : t \in 0..RUN_AT}
    /\ STOP = FALSE
    /\ pcS = "boot"
    /\ idx = 1
    /\ stateFile \in InitStateFiles
    /\ today_str = ""
    /\ symbols = <<>>
    /\ STARTUP_RUN \in {"0", "1"}
    /\ SIGNAL_THRESH \in {"0.6", ""}
    /\ lastRun = NoRun
    /\ attempted = [d \in DateStrs |->
                      IF stateFile.kind = "json" /\ stateFile.last_run_date = d
                      THEN Range(stateFile.done_symbols) ELSE {}]
    /\ failed = [d \in DateStrs |-> {}]
    /\ skipped = {}
    /\ batchRuns = [d \in DateStrs |->
                      IF stateFile.kind = "json" /\ stateFile.last_run_date = d
                      THEN 1 ELSE 0]

\* _handle_sig: SIGINT / SIGTERM may arrive at any time
Signal ==
    /\ pcS \notin {"exit", "crashed", "killed"}
    /\ ~STOP
    /\ STOP' = TRUE
    /\ UNCHANGED <<now, pcS, idx, stateFile, today_str, symbols,
                   STARTUP_RUN, SIGNAL_THRESH, lastRun, attempted, failed, skipped, batchRuns, trainVars, btVars, lbVars, ftVars>>

\* main, lines 212-229: set-up, probe, then the optional startup run
Boot ==
    /\ pcS = "boot"
    /\ pcS' = IF STARTUP_RUN = "1" THEN "startup" ELSE "poll"
    /\ idx' = 1
    /\ UNCHANGED <<now, STOP, stateFile, today_str, symbols,
                   STARTUP_RUN, SIGNAL_THRESH, lastRun, attempted, failed, skipped, batchRuns, trainVars, btVars, lbVars, ftVars>>

\* a startup loop that records its run in the state file as the daily batch does
StartupStep_Commits ==
    /\ pcS = "startup"
    /\ IF STOP \/ idx > Len(read_symbols)
       THEN /\ pcS' = "poll"
            /\ stateFile' = save_state([last_run_date |-> strftime(now.date),
                                        done_symbols |-> read_symbols])
            /\ UNCHANGED <<now, idx, lastRun>>
       ELSE \E launch \in Launches, upd \in UpdateOutcomes, k \in 0..MaxRunMinutes :
              LET r == run_once_for_symbol(read_symbols[idx], SIGNAL_THRESH, launch, upd)
              IN  /\ InHorizon(Elapse(now, k))
                  /\ now' = Elapse(now, k)
                  /\ lastRun' = r
                  /\ idx' = idx + 1
                  /\ pcS' = IF r.raised THEN "crashed" ELSE "startup"
                  /\ UNCHANGED stateFile
    /\ UNCHANGED <<STOP, today_str, symbols,
                   STARTUP_RUN, SIGNAL_THRESH, attempted, failed, skipped, batchRuns, trainVars, btVars, lbVars, ftVars>>

\* main, lines 230-235: one iteration of the startup loop
StartupStep ==
    /\ pcS = "startup"
    /\ IF STOP \/ idx > Len(read_symbols)
       THEN /\ pcS' = "poll"
            /\ UNCHANGED <<now, idx, lastRun>>
       ELSE \E launch \in Launches, upd \in UpdateOutcomes, k \in 0..MaxRunMinutes :
              LET r == run_once_for_symbol(read_symbols[idx], SIGNAL_THRESH, launch, upd)
              IN  /\ InHorizon(Elapse(now, k))
                  /\ now' = Elapse(now, k)
                  /\ lastRun' = r
                  /\ idx' = idx + 1
                  /\ pcS' = IF r.raised THEN "crashed" ELSE "startup"
    /\ UNCHANGED <<STOP, stateFile, today_str, symbols,
                   STARTUP_RUN, SIGNAL_THRESH, attempted, failed, skipped, batchRuns, trainVars, btVars, lbVars, ftVars>>

\* main, lines 238-246: the head of one poll iteration
PollTick ==
    /\ pcS = "poll"
    /\ IF STOP
       THEN /\ pcS' = "exit"
            /\ UNCHANGED <<idx, today_str, symbols, batchRuns, skipped>>
       ELSE LET state == load_state(stateFile)
                tstr == strftime(now.date)
            IN  /\ today_str' = tstr
                /\ IF ShouldTrigger(now, state)
                   THEN /\ symbols' = read_symbols
                        /\ idx' = 1
                        /\ batchRuns' = [batchRuns EXCEPT ![tstr] = @ + 1]
                        /\ pcS' = "batch"
                        /\ UNCHANGED skipped
                   ELSE /\ pcS' = "wait"
                        /\ skipped' = IF now.tod = RUN_AT THEN skipped \cup {tstr} ELSE skipped
                        /\ UNCHANGED <<idx, symbols, batchRuns>>
    /\ UNCHANGED <<now, STOP, stateFile, STARTUP_RUN, SIGNAL_THRESH, lastRun, attempted, failed,
                   trainVars, btVars, lbVars, ftVars>>

\* the batch loop without `if STOP: break`
BatchStep_NoStopCheck ==
    /\ pcS = "batch"
    /\ IF idx > Len(symbols)
       THEN /\ pcS' = "commit"
            /\ UNCHANGED <<now, idx, lastRun, attempted, failed>>
       ELSE \E launch \in Launches, upd \in UpdateOutcomes, k \in 0..MaxRunMinutes :
              LET r == run_once_for_symbol(symbols[idx], SIGNAL_THRESH, launch, upd)
              IN  /\ InHorizon(Elapse(now, k))
                  /\ now' = Elapse(now, k)
                  /\ lastRun' = r
                  /\ attempted' = [attempted EXCEPT ![today_str] = @ \cup {symbols[idx]}]
                  /\ failed' = IF r.started /\ r.rc = 0 THEN failed
                                ELSE [failed EXCEPT ![today_str] = @ \cup {symbols[idx]}]
                  /\ idx' = idx + 1
                  /\ pcS' = IF r.raised THEN "crashed" ELSE "batch"
    /\ UNCHANGED <<STOP, stateFile, today_str, symbols,
                   STARTUP_RUN, SIGNAL_THRESH, skipped, batchRuns, trainVars, btVars, lbVars, ftVars>>

\* main, lines 248-251: one iteration of the batch loop
BatchStep ==
    /\ pcS = "batch"
    /\ IF STOP \/ idx > Len(symbols)
       THEN /\ pcS' = "commit"
            /\ UNCHANGED <<now, idx, lastRun, attempted, failed>>
       ELSE \E launch \in Launches, upd \in UpdateOutcomes, k \in 0..MaxRunMinutes :
              LET r == run_once_for_symbol(symbols[idx], SIGNAL_THRESH, launch, upd)
              IN  /\ InHorizon(Elapse(now, k))
                  /\ now' = Elapse(now, k)
                  /\ lastRun' = r
                  /\ attempted' = [attempted EXCEPT ![today_str] = @ \cup {symbols[idx]}]
                  /\ failed' = IF r.started /\ r.rc = 0 THEN failed
                                ELSE [failed EXCEPT ![today_str] = @ \cup {symbols[idx]}]
                  /\ idx' = idx + 1
                  /\ pcS' = IF r.raised THEN "crashed" ELSE "batch"
    /\ UNCHANGED <<STOP, stateFile, today_str, symbols,
                   STARTUP_RUN, SIGNAL_THRESH, skipped, batchRuns, trainVars, btVars, lbVars, ftVars>>

\* the state file between write_text's open(..., "w"), which truncates it,
\* and the end of the write: json.loads fails on it
Truncated == [kind |-> "partial", last_run_date |-> "", done_symbols |-> <<>>]

\* main, lines 253-255: after the loop the record is handed to save_state,
\* whose write_text opens the state file itself for writing
Commit ==
    /\ pcS = "commit"
    /\ stateFile' = Truncated
    /\ pcS' = "commit_w"
    /\ UNCHANGED <<now, STOP, idx, today_str, symbols,
                   STARTUP_RUN, SIGNAL_THRESH, lastRun, attempted, failed, skipped, batchRuns, trainVars, btVars, lbVars, ftVars>>

\* save_state, line 76: the JSON dump of the record is written and the file closed
CommitWrite ==
    /\ pcS = "commit_w"
    /\ stateFile' = save_state([last_run_date |-> today_str, done_symbols |-> symbols])
    /\ pcS' = "cooldown"
    /\ UNCHANGED <<now, STOP, idx, today_str, symbols,
                   STARTUP_RUN, SIGNAL_THRESH, lastRun, attempted, failed, skipped, batchRuns, trainVars, btVars, lbVars, ftVars>>

\* the process dies where it is (SIGKILL, power loss): no handler runs
Kill ==
    /\ pcS \notin {"exit", "crashed", "killed"}
    /\ pcS' = "killed"
    /\ UNCHANGED <<now, STOP, idx, stateFile, today_str, symbols,
                   STARTUP_RUN, SIGNAL_THRESH, lastRun, attempted, failed, skipped, batchRuns, trainVars, btVars, lbVars, ftVars>>

\* main, lines 260-262: 70 one-second slices, left early on STOP
Cooldown ==
    /\ pcS = "cooldown"
    /\ \E k \in (IF STOP THEN {0} ELSE {1, 2}) :
         /\ InHorizon(Elapse(now, k))
         /\ now' = Elapse(now, k)
    /\ pcS' = "wait"
    /\ UNCHANGED <<STOP, idx, stateFile, today_str, symbols,
                   STARTUP_RUN, SIGNAL_THRESH, lastRun, attempted, failed, skipped, batchRuns, trainVars, btVars, lbVars, ftVars>>

\* main, lines 265-267: 10 one-second slices, left early on STOP
Wait ==
    /\ pcS = "wait"
    /\ \E k \in (IF STOP THEN {0} ELSE {0, 1}) :
         /\ InHorizon(Elapse(now, k))
         /\ now' = Elapse(now, k)
    /\ pcS' = "poll"
    /\ UNCHANGED <<STOP, idx, stateFile, today_str, symbols,
                   STARTUP_RUN, SIGNAL_THRESH, lastRun, attempted, failed, skipped, batchRuns, trainVars, btVars, lbVars, ftVars>>

(***************************************************************************)
(* Online trainer: data window, files, processes                           *)
(***************************************************************************)
\* --start default "2020-01-01", as a day index
START_DAY == 0
\* --horizon default
HORIZON == 5
\* the safety overlap of main: last_dt - 5 days
SAFETY_DAYS == 5
\* period of adx(), the longest warm-up of build_features
ADX_PERIOD == 14

\* an explicit --end before the first watermark's safety window
EarlyEnd == 20

\* most fits (init, then updates) a persisted estimator carries in the model
MaxFits == 2

TSymbols == {"BTC-USD", "ETH-USD"}
Procs == {"p1", "p2"}

\* the symbols a process is started on: the two processes meet on BTC-USD,
\* and p1 also works on ETH-USD
SymbolsOf(p) == IF p = "p1" THEN TSymbols ELSE {"BTC-USD"}
Modes == {"init", "update"}

\* args.end: not given (None) or an explicit day
EndArgs == {[given |-> FALSE, day |-> 0], [given |-> TRUE, day |-> EarlyEnd]}

None == -1

Min(a, b) == IF a <= b THEN a ELSE b

\* yf.download(start, end): the bars with start <= day < end that exist;
\* download raises ValueError when there are none
download(start, end, day) ==
    LET last == Min(end, day) - 1
    IN  [empty |-> last < start, first |-> start, last |-> last]

\* build_features: rows with an incomplete rolling window are dropped; the
\* longest window is adx's rolling(14) mean of a rolling(14) quantity
WarmupRows == 2 * (ADX_PERIOD - 1)

build_features(raw) == [first |-> raw.first + WarmupRows, last |-> raw.last]

\* label_future: out.iloc[:-horizon]
label_future_rows(feats, horizon) == [first |-> feats.first, last |-> feats.last - horizon]

IsEmpty(t) == t.last < t.first

\* the first day on which init from START_DAY has a labeled row
FirstInitDay == START_DAY + WarmupRows + HORIZON + 1

\* the days on which the data source is observed: the day before and the day
\* of the first possible init, and the day before and the day of the first
\* update after it whose table is not empty
RunDays ==
    {FirstInitDay - 1, FirstInitDay,
     FirstInitDay + WarmupRows - SAFETY_DAYS - 1, FirstInitDay + WarmupRows - SAFETY_DAYS}

FirstDay == FirstInitDay - 1

\* the bars of a window of days at bpd bars per day, numbered from day 0
bars_of(raw, bpd) ==
    [empty |-> raw.empty, first |-> raw.first * bpd, last |-> (raw.last + 1) * bpd - 1]

\* data.index[-1].date(): the day of a bar
date_of(bar, bpd) == bar \div bpd

\* the labeled table of a download window
Table(raw) == label_future_rows(build_features(raw), HORIZON)

\* a file that does not exist, and a file opened for writing and not yet written
Missing == [kind |-> "missing", data |-> <<>>, last_dt |-> None]
Partial == [kind |-> "partial", data |-> <<>>, last_dt |-> None]

\* joblib.dump of an estimator that has been fitted on the batches in data
Dumped(data) == [kind |-> "ok", data |-> data, last_dt |-> None]

\* save_state(dir_, last_dt): {"last_dt": ...}
StateJson(last_dt) == [kind |-> "ok", data |-> <<>>, last_dt |-> last_dt]

NoBundle == [model |-> Missing, scaler |-> Missing, state |-> Missing]

\* load_state(dir_): None when state.json is missing or unreadable
load_state_trainer(f) == IF f.kind = "ok" THEN f.last_dt ELSE None

\* joblib.load raises on a missing or truncated file
Loadable(f) == f.kind = "ok"

\* the update branch without the `if not last_dt` exit
AfterLoadState_NoCheck(last_dt) == "download"

\* main, update branch: where the process goes after load_state
AfterLoadState(last_dt) == IF last_dt = None THEN "exit1" ELSE "download"

\* update_train, lines 222-224: where the process goes with the labeled table
AfterTableUpdate(data) == IF IsEmpty(data) THEN "exit0" ELSE "load_model"

\* init_train with a scaler that accepts a table without rows
AfterTableInit_NoRaise(data) == "dump_model"

\* init_train, lines 188-192: scaler.partial_fit raises on an empty table
AfterTableInit(data) == IF IsEmpty(data) THEN "exit1" ELSE "dump_model"

IdleProc ==
    [pc |-> "idle", mode |-> "", sym |-> "", end |-> 0, wmSeen |-> None,
     data |-> [first |-> 0, last |-> -1], model |-> <<>>, scaler |-> <<>>, rc |-> 0]

Running(p) == procs[p].pc \notin {"idle", "done"}

\* the bundle is unreadable or inconsistent: state.json unreadable, or the
\* watermark present with model or scaler missing or unreadable
BundleCorrupt(b) ==
    \/ b.state.kind = "partial"
    \/ b.state.kind = "ok" /\ (b.model.kind # "ok" \/ b.scaler.kind # "ok")

InitTrainer ==
    /\ today = FirstDay
    /\ interval = 1
    /\ files = [s \in TSymbols |-> NoBundle]
    /\ procs = [p \in Procs |-> IdleProc]
    /\ committed = [s \in TSymbols |-> NoBundle]

\* --interval 1h: bars per day
HOURLY == 24

\* the trainer run on hourly bars, from a day shortly after EarlyEnd: an
\* init then leaves a watermark later than EarlyEnd whose safety window
\* starts before it
InitIntraday ==
    /\ today = EarlyEnd + 2
    /\ interval = HOURLY
    /\ files = [s \in TSymbols |-> NoBundle]
    /\ procs = [p \in Procs |-> IdleProc]
    /\ committed = [s \in TSymbols |-> NoBundle]

\* the trainer variables while only the scheduler is modelled
TrainerOff ==
    /\ today = 0
    /\ interval = 1
    /\ files = [s \in TSymbols |-> NoBundle]
    /\ procs = [p \in Procs |-> IdleProc]
    /\ committed = [s \in TSymbols |-> NoBundle]

\* the process exits: its memory is gone, its exit status stays
Exited(me, rc) ==
    [IdleProc EXCEPT !.pc = "done", !.mode = me.mode, !.sym = me.sym,
                     !.wmSeen = me.wmSeen, !.rc = rc]

\* a day passes at the data source
Tick ==
    /\ \E d \in RunDays : d > today /\ today' = d
    /\ UNCHANGED <<interval, files, procs, committed, schedVars, btVars, lbVars, ftVars>>

\* main, lines 254-278: a trainer process starts; end defaults to today;
\* init goes to init_train, update reads the watermark first
TStart(p) ==
    /\ ~Running(p)
    /\ \E mode \in Modes, sym \in SymbolsOf(p), e \in EndArgs :
         LET last_dt == load_state_trainer(files[sym].state)
             me == [IdleProc EXCEPT !.pc = "download", !.mode = mode, !.sym = sym,
                                    !.end = IF e.given THEN e.day ELSE today]
         IN  IF mode = "init"
             THEN procs' = [procs EXCEPT ![p] = me]
             ELSE IF AfterLoadState(last_dt) = "exit1"
                  THEN procs' = [procs EXCEPT ![p] = Exited(me, 1)]
                  ELSE procs' = [procs EXCEPT ![p] = [me EXCEPT !.wmSeen = last_dt]]
    /\ UNCHANGED <<today, interval, files, committed, schedVars, btVars, lbVars, ftVars>>

\* init_train lines 184-199 / update_train lines 219-224: download, features,
\* labels, and for init the first fit
TDownload(p) ==
    /\ procs[p].pc = "download"
    /\ LET me == procs[p]
           since == IF me.mode = "init" THEN START_DAY ELSE me.wmSeen - SAFETY_DAYS
           raw == download(since, me.end, today)
           data == Table(bars_of(raw, interval))
       IN  IF raw.empty
           THEN procs' = [procs EXCEPT ![p] = Exited(me, 1)]
           ELSE IF me.mode = "init"
                THEN IF AfterTableInit(data) = "exit1"
                     THEN procs' = [procs EXCEPT ![p] = Exited(me, 1)]
                     ELSE procs' = [procs EXCEPT ![p].pc = "dump_model",
                                                 ![p].data = data,
                                                 ![p].model = <<data>>,
                                                 ![p].scaler = <<data>>]
                ELSE IF AfterTableUpdate(data) = "exit0"
                     THEN procs' = [procs EXCEPT ![p] = Exited(me, 0)]
                     ELSE procs' = [procs EXCEPT ![p].pc = "load_model", ![p].data = data]
    /\ UNCHANGED <<today, interval, files, committed, schedVars, btVars, lbVars, ftVars>>

\* update_train line 226
TLoadModel(p) ==
    /\ procs[p].pc = "load_model"
    /\ LET f == files[procs[p].sym].model
       IN  IF Loadable(f)
           THEN /\ Len(f.data) < MaxFits
                /\ procs' = [procs EXCEPT ![p].pc = "load_scaler", ![p].model = f.data]
           ELSE procs' = [procs EXCEPT ![p] = Exited(procs[p], 1)]
    /\ UNCHANGED <<today, interval, files, committed, schedVars, btVars, lbVars, ftVars>>

\* update_train lines 227-238: load the scaler, then partial_fit both on the batch
TLoadScaler(p) ==
    /\ procs[p].pc = "load_scaler"
    /\ LET me == procs[p]
           f == files[me.sym].scaler
       IN  IF Loadable(f)
           THEN /\ Len(f.data) < MaxFits
                /\ procs' = [procs EXCEPT ![p].pc = "dump_model",
                                       ![p].scaler = Append(f.data, me.data),
                                       ![p].model = Append(me.model, me.data)]
           ELSE procs' = [procs EXCEPT ![p] = Exited(me, 1)]
    /\ UNCHANGED <<today, interval, files, committed, schedVars, btVars, lbVars, ftVars>>

\* dump(model, ...): the file is opened for writing (truncated) ...
TDumpModelOpen(p) ==
    /\ procs[p].pc = "dump_model"
    /\ files' = [files EXCEPT ![procs[p].sym].model = Partial]
    /\ procs' = [procs EXCEPT ![p].pc = "dump_model_w"]
    /\ UNCHANGED <<today, interval, committed, schedVars, btVars, lbVars, ftVars>>

\* ... and then written
TDumpModelWrite(p) ==
    /\ procs[p].pc = "dump_model_w"
    /\ files' = [files EXCEPT ![procs[p].sym].model = Dumped(procs[p].model)]
    /\ procs' = [procs EXCEPT ![p].pc = "dump_scaler"]
    /\ UNCHANGED <<today, interval, committed, schedVars, btVars, lbVars, ftVars>>

\* dump(scaler, ...): opened ...
TDumpScalerOpen(p) ==
    /\ procs[p].pc = "dump_scaler"
    /\ files' = [files EXCEPT ![procs[p].sym].scaler = Partial]
    /\ procs' = [procs EXCEPT ![p].pc = "dump_scaler_w"]
    /\ UNCHANGED <<today, interval, committed, schedVars, btVars, lbVars, ftVars>>

\* ... and written
TDumpScalerWrite(p) ==
    /\ procs[p].pc = "dump_scaler_w"
    /\ files' = [files EXCEPT ![procs[p].sym].scaler = Dumped(procs[p].scaler)]
    /\ procs' = [procs EXCEPT ![p].pc = "save_state"]
    /\ UNCHANGED <<today, interval, committed, schedVars, btVars, lbVars, ftVars>>

\* data.to_csv, then save_state: state.json is opened for writing ...
TSaveStateOpen(p) ==
    /\ procs[p].pc = "save_state"
    /\ files' = [files EXCEPT ![procs[p].sym].state = Partial]
    /\ procs' = [procs EXCEPT ![p].pc = "save_state_w"]
    /\ UNCHANGED <<today, interval, committed, schedVars, btVars, lbVars, ftVars>>

\* ... and the watermark written; the report follows and the process exits 0
TSaveStateWrite(p) ==
    /\ procs[p].pc = "save_state_w"
    /\ LET s == procs[p].sym
           after == [files EXCEPT ![s].state = StateJson(date_of(procs[p].data.last, interval))]
       IN  /\ files' = after
           /\ committed' = [committed EXCEPT ![s] = after[s]]
    /\ procs' = [procs EXCEPT ![p] = Exited(procs[p], 0)]
    /\ UNCHANGED <<today, interval, schedVars, btVars, lbVars, ftVars>>

\* the process is terminated (SIGKILL, power loss) wherever it is
TCrash(p) ==
    /\ Running(p)
    /\ procs' = [procs EXCEPT ![p] = IdleProc]
    /\ UNCHANGED <<today, interval, files, committed, schedVars, btVars, lbVars, ftVars>>

(***************************************************************************)
(* Backtest engine (src/crypto_model_backtest.py)                          *)
(*                                                                         *)
(* Prices, returns and equity are exact rationals [n, d] in lowest terms   *)
(* (the code computes them as float64), with the float NaN that 0.0 / 0.0 *)
(* yields; probabilities and the signal threshold are tenths.              *)
(***************************************************************************)
\* longest series of the small inputs
MaxBars == 5
\* most signalling rows in an input built on the long series
MaxSignals == 2

Abs(x) == IF x < 0 THEN -x ELSE x

RECURSIVE Gcd(_, _)
Gcd(a, b) == IF b = 0 THEN a ELSE Gcd(b, a % b)

\* float NaN
NaN == [n |-> 0, d |-> 0]
IsNaN(x) == x.n = 0 /\ x.d = 0

\* the number n/d in lowest terms with a positive denominator; 0/0 is NaN
\* (no other division by zero occurs in the engine)
Rat(n, d) ==
    IF n = 0 /\ d = 0 THEN NaN
    ELSE LET g == Gcd(Abs(n), Abs(d))
             sgn == IF d < 0 THEN -1 ELSE 1
         IN  [n |-> (sgn * n) \div g, d |-> (sgn * d) \div g]

Zero == Rat(0, 1)
One == Rat(1, 1)

\* the operations reduce by common factors before they multiply
RAdd(x, y) ==
    IF IsNaN(x) \/ IsNaN(y) THEN NaN
    ELSE LET g == Gcd(x.d, y.d)
         IN  Rat(x.n * (y.d \div g) + y.n * (x.d \div g), (x.d \div g) * y.d)
RNeg(x) == [n |-> -x.n, d |-> x.d]
RSub(x, y) == RAdd(x, RNeg(y))
RMul(x, y) ==
    IF IsNaN(x) \/ IsNaN(y) THEN NaN
    ELSE LET g1 == Gcd(Abs(x.n), y.d)
             g2 == Gcd(Abs(y.n), x.d)
         IN  Rat((x.n \div g1) * (y.n \div g2), (x.d \div g2) * (y.d \div g1))
RDiv(x, y) ==
    IF IsNaN(x) \/ IsNaN(y) \/ y.n = 0 THEN Rat(x.n * y.d, x.d * y.n)
    ELSE RMul(x, Rat(y.d, y.n))
\* comparisons with NaN are false
RLt(x, y) ==
    /\ ~IsNaN(x) /\ ~IsNaN(y)
    /\ LET g == Gcd(x.d, y.d) IN x.n * (y.d \div g) < y.n * (x.d \div g)
RLe(x, y) ==
    /\ ~IsNaN(x) /\ ~IsNaN(y)
    /\ LET g == Gcd(x.d, y.d) IN x.n * (y.d \div g) <= y.n * (x.d \div g)
\* pandas reductions skip NaN (skipna=True)
RMin(x, y) == IF IsNaN(x) THEN y ELSE IF IsNaN(y) THEN x ELSE IF RLe(x, y) THEN x ELSE y
RMax(x, y) == IF IsNaN(x) THEN y ELSE IF IsNaN(y) THEN x ELSE IF RLe(x, y) THEN y ELSE x

RECURSIVE RSum(_)
RSum(s) == IF s = <<>> THEN Zero ELSE RAdd(Head(s), RSum(Tail(s)))

\* pandas Series.mean of a non-empty series
mean(s) == RDiv(RSum(s), Rat(Len(s), 1))

\* positional access, 0-based as in the code
iloc(s, i) == s[i + 1]

\* --threshold 0.03 of the labeler
LABEL_THRESHOLD == Rat(3, 100)

\* label_future with the comparison `>=` in place of `>`
label_future_NonStrict(close, horizon, threshold) ==
    [t \in 1..(IF Len(close) > horizon THEN Len(close) - horizon ELSE 0) |->
        LET future_ret == RSub(Rat(close[t + horizon], close[t]), One)
        IN  [Close |-> close[t],
             future_ret |-> future_ret,
             target |-> IF RLe(threshold, future_ret) THEN 1 ELSE 0]]

\* label_future: future = Close.shift(-horizon); future_ret = future/Close - 1;
\* target = future_ret > threshold; then the last `horizon` rows are cut.
\* (The code evaluates out.iloc[:-horizon]; every horizon here is >= 1.)
\* future_ret is exact here and binary64 in the code: the two comparisons
\* agree on every input of BtInputs (see ThresholdVals).
label_future(close, horizon, threshold) ==
    [t \in 1..(IF Len(close) > horizon THEN Len(close) - horizon ELSE 0) |->
        LET future_ret == RSub(Rat(close[t + horizon], close[t]), One)
        IN  [Close |-> close[t],
             future_ret |-> future_ret,
             target |-> IF RLt(threshold, future_ret) THEN 1 ELSE 0]]

\* 0-based positions of the rows with proba >= signal_threshold, ascending
\* (np.where(signal_mask.values)[0])
RECURSIVE signal_days_from(_, _, _)
signal_days_from(proba, signal_threshold, i) ==
    IF i >= Len(proba) THEN <<>>
    ELSE (IF iloc(proba, i) >= signal_threshold THEN <<i>> ELSE <<>>)
         \o signal_days_from(proba, signal_threshold, i + 1)

\* the signal days when the mask is `proba > signal_threshold`
signal_days_Strict(proba, signal_threshold) ==
    signal_days_from(proba, signal_threshold + 1, 0)

signal_days(proba, signal_threshold) == signal_days_from(proba, signal_threshold, 0)

\* raw_ret = dfp.iloc[j]["future_ret"]
raw_ret_of(dfp, i, j) == iloc(dfp, j).future_ret

\* the net return with the cost added instead of charged
net_trade_ret_AddsCost(raw_ret, cost, cap) ==
    RMul(cap, RAdd(raw_ret, RMul(Rat(2, 1), cost)))

\* net_trade_ret = cap * (raw_ret - 2.0 * cost)
net_trade_ret(raw_ret, cost, cap) == RMul(cap, RSub(raw_ret, RMul(Rat(2, 1), cost)))

\* the update applied to the whole series: equity *= f
ScaleFrom_WholeSeries(equity, j, f) ==
    [t \in 1..Len(equity) |-> RMul(equity[t], f)]

\* equity.iloc[j:] *= f
ScaleFrom(equity, j, f) ==
    [t \in 1..Len(equity) |-> IF t - 1 >= j THEN RMul(equity[t], f) ELSE equity[t]]

\* the largest non-NaN value of equity[1..t]
RECURSIVE running_max(_, _)
running_max(equity, t) ==
    IF t = 1 THEN equity[1] ELSE RMax(running_max(equity, t - 1), equity[t])

\* the peak of the whole series in place of the running one: equity.max()
cummax_WholeSeries(equity, t) ==
    IF IsNaN(equity[t]) THEN NaN ELSE running_max(equity, Len(equity))

\* equity.cummax() at position t (1-based): NaN where equity is NaN
cummax(equity, t) == IF IsNaN(equity[t]) THEN NaN ELSE running_max(equity, t)

\* dd = equity / roll_max - 1; mdd = dd.min()
RECURSIVE dd_min(_, _)
dd_min(equity, t) ==
    LET dd == RSub(RDiv(equity[t], cummax(equity, t)), One)
    IN  IF t = 1 THEN dd ELSE RMin(dd_min(equity, t - 1), dd)

StrategyMetrics(n_trades, hit_rate, avg_win, avg_loss, total_return, mdd, equity_last) ==
    [n_trades |-> n_trades, hit_rate |-> hit_rate, avg_win |-> avg_win,
     avg_loss |-> avg_loss, total_return |-> total_return, mdd |-> mdd,
     equity_last |-> equity_last]

NoMetrics == StrategyMetrics(0, Zero, Zero, Zero, Zero, Zero, Zero)

\* the metrics block at the end of backtest_with_cost_cap (on a table with
\* at least one row)
Metrics(trades, equity) ==
    LET n_trades == Len(trades)
        IsWin(r) == RLt(Zero, r)
        IsLoss(r) == RLe(r, Zero)
        wins == SelectSeq(trades, IsWin)
        losses == SelectSeq(trades, IsLoss)
        equity_last == equity[Len(equity)]
    IN  IF n_trades = 0
        THEN StrategyMetrics(0, Zero, Zero, Zero, Zero, Zero, equity_last)
        ELSE StrategyMetrics(n_trades,
                             Rat(Len(wins), n_trades),
                             IF Len(wins) > 0 THEN mean(wins) ELSE Zero,
                             IF Len(losses) > 0 THEN mean(losses) ELSE Zero,
                             RSub(equity_last, One),
                             dd_min(equity, Len(equity)),
                             equity_last)

\* the close series of the specification's worked example
WorkedClose == <<100, 101, 103, 99, 98, 102, 105, 101, 100, 103>>
\* its probabilities (tenths) on the rows label_future keeps with horizon 2
WorkedProba == <<10, 0, 0, 0, 10, 0, 0, 0>>

\* probabilities, in tenths: below, at and above the signal threshold
ProbaVals == {0, 5, 10}
SIGNAL_THRESHOLD == 5

\* closes of the small inputs
CloseVals == {1, 2, 3}
\* cost per side: none, moderate, and one large enough for 1 + net <= 0
CostVals == {Zero, Rat(1, 10), Rat(1, 4)}
\* cap: full and half position
CapVals == {One, Rat(1, 2)}

Seqs(S, n) == [1..n -> S]

\* --threshold of the small inputs: the default, which no return of CloseVals
\* comes near, and 0.5, which 3/2 - 1 equals exactly in binary64 as well
ThresholdVals == {LABEL_THRESHOLD, Rat(1, 2)}

\* what run() hands to the engine: a close series, the probabilities of its
\* labeled rows, and the horizon / threshold / cost / cap arguments.  The
\* worked series is labeled at 0.5: at 0.03 the code's 103/100 - 1.0 is
\* 0.030000000000000027, which an exact comparison would not reproduce.
BtInputs ==
    {[close |-> WorkedClose, proba |-> p, horizon |-> 2, threshold |-> Rat(1, 2),
      cost |-> Zero, cap |-> One] :
        p \in {q \in Seqs(ProbaVals, Len(WorkedClose) - 2) :
                 Len(signal_days(q, SIGNAL_THRESHOLD)) <= MaxSignals}}
    \cup
    {[close |-> c, proba |-> p, horizon |-> h, threshold |-> th, cost |-> k, cap |-> a] :
        c \in {s \in Seqs(CloseVals, MaxBars) : s[1] = 2 /\ s[MaxBars] # 2},
        p \in Seqs({0, SIGNAL_THRESHOLD}, MaxBars - 1)
               \cup Seqs({0, SIGNAL_THRESHOLD}, MaxBars - 2),
        h \in {1, 2},
        th \in ThresholdVals,
        k \in CostVals,
        a \in CapVals}
    \cup
    \* a table without rows: the series is no longer than the horizon
    {[close |-> c, proba |-> <<>>, horizon |-> h, threshold |-> LABEL_THRESHOLD,
      cost |-> Zero, cap |-> One] :
        c \in {<<2>>, <<2, 3>>}, h \in {1, 2}}

\* train_evaluate's test_size = 0.2
TEST_SIZE == Rat(1, 5)

\* train_evaluate: n_test = max(1, int(n * test_size)); n_train = n - n_test.
\* The classifier is fitted on rows 0 .. n_train-1, the test split is the rest.
n_train_of(n) ==
    LET n_test == IF (n * TEST_SIZE.n) \div TEST_SIZE.d >= 1
                  THEN (n * TEST_SIZE.n) \div TEST_SIZE.d ELSE 1
    IN  n - n_test

BtIdle ==
    [pc |-> "off", close |-> <<>>, proba |-> <<>>, horizon |-> 1,
     threshold |-> LABEL_THRESHOLD, cost |-> Zero,
     cap |-> One, n_train |-> 0, dfp |-> <<>>, signal_days |-> <<>>, k |-> 1,
     trades |-> <<>>, last_eq |-> One, equity |-> <<>>, result |-> NoMetrics]

\* no backtest is running
BacktestOff == bt = BtIdle

\* run() has built the labeled table; train_evaluate has fitted the classifier
\* on the first n_train rows and set proba on every row of the table
\* (proba_all = predict_proba of the whole table)
InitBacktest ==
    \E in \in BtInputs :
        /\ Len(in.proba) = Len(label_future(in.close, in.horizon, in.threshold))
        /\ bt = [BtIdle EXCEPT !.pc = "call", !.close = in.close, !.proba = in.proba,
                               !.horizon = in.horizon, !.threshold = in.threshold,
                               !.cost = in.cost, !.cap = in.cap,
                               !.n_train = n_train_of(Len(in.proba))]

\* backtest_with_cost_cap up to the loop: the table, equity = 1.0 on every
\* row, the signal days, eq = last_eq = 1.0
Enter(b) ==
    [b EXCEPT !.pc = "loop",
              !.dfp = label_future(b.close, b.horizon, b.threshold),
              !.equity = [t \in 1..Len(b.proba) |-> One],
              !.signal_days = signal_days(b.proba, SIGNAL_THRESHOLD),
              !.k = 1, !.trades = <<>>, !.last_eq = One]

\* the loop is at a signal day whose j = i + horizon is inside the table
AtTrade(b) ==
    /\ b.k <= Len(b.signal_days)
    /\ b.signal_days[b.k] + b.horizon < Len(b.dfp)

\* the loop is at a signal day with `j >= len(dfp)`
AtBreak(b) ==
    /\ b.k <= Len(b.signal_days)
    /\ b.signal_days[b.k] + b.horizon >= Len(b.dfp)

\* one pass through the loop body
LoopBody(b) ==
    LET i == b.signal_days[b.k]
        j == i + b.horizon
        raw_ret == raw_ret_of(b.dfp, i, j)
        eq == RMul(b.last_eq, RAdd(One, net_trade_ret(raw_ret, b.cost, b.cap)))
    IN  [b EXCEPT !.trades = Append(b.trades, raw_ret),
                  !.equity = ScaleFrom(b.equity, j, RDiv(eq, b.last_eq)),
                  !.last_eq = eq,
                  !.k = b.k + 1]

\* the whole loop
RECURSIVE RunLoop(_)
RunLoop(b) == IF AtTrade(b) THEN RunLoop(LoopBody(b)) ELSE b

\* equity.iloc[-1] raises IndexError on a table without rows
Raises(b) == Len(b.equity) = 0

\* the record a call with arguments b (close, proba, horizon, cost, cap)
\* returns, on a table with at least one row
backtest_with_cost_cap(b) ==
    LET e == RunLoop(Enter(b)) IN Metrics(e.trades, e.equity)

BtEnter ==
    /\ bt.pc = "call"
    /\ bt' = Enter(bt)
    /\ UNCHANGED <<schedVars, trainVars, lbVars, ftVars>>

\* one pass through the loop body for a signal day whose j is inside the table
BtTrade ==
    /\ bt.pc = "loop"
    /\ AtTrade(bt)
    /\ bt' = LoopBody(bt)
    /\ UNCHANGED <<schedVars, trainVars, lbVars, ftVars>>

\* `if j >= len(dfp): break`
BtBreak ==
    /\ bt.pc = "loop"
    /\ AtBreak(bt)
    /\ bt' = [bt EXCEPT !.pc = "metrics"]
    /\ UNCHANGED <<schedVars, trainVars, lbVars, ftVars>>

\* the loop has run out of signal days
BtLoopEnd ==
    /\ bt.pc = "loop"
    /\ bt.k > Len(bt.signal_days)
    /\ bt' = [bt EXCEPT !.pc = "metrics"]
    /\ UNCHANGED <<schedVars, trainVars, lbVars, ftVars>>

\* the metrics and the return
BtMetrics ==
    /\ bt.pc = "metrics"
    /\ ~Raises(bt)
    /\ bt' = [bt EXCEPT !.pc = "done", !.result = Metrics(bt.trades, bt.equity)]
    /\ UNCHANGED <<schedVars, trainVars, lbVars, ftVars>>

\* line 193 on a table without rows: float(equity.iloc[-1]) raises
BtRaise ==
    /\ bt.pc = "metrics"
    /\ Raises(bt)
    /\ bt' = [bt EXCEPT !.pc = "raised"]
    /\ UNCHANGED <<schedVars, trainVars, lbVars, ftVars>>

NextBacktest ==
    \/ BtEnter
    \/ BtTrade
    \/ BtBreak
    \/ BtLoopEnd
    \/ BtMetrics
    \/ BtRaise

(***************************************************************************)
(* The take-profit / stop-loss labeler: label_future_return                *)
(* (src/labeling.py)                                                       *)
(***************************************************************************)
\* thr_long = thr_short = 0.0012
THR_LONG == Rat(3, 2500)
THR_SHORT == Rat(3, 2500)
\* fillna(0.003).clip(0.001, 0.02)
PCT_FILL == Rat(3, 1000)
PCT_LO == Rat(1, 1000)
PCT_HI == Rat(1, 50)

\* the values of a window in ascending order
RECURSIVE Insert(_, _)
Insert(x, s) ==
    IF s = <<>> THEN <<x>>
    ELSE IF RLe(x, Head(s)) THEN <<x>> \o s
    ELSE <<Head(s)>> \o Insert(x, Tail(s))

RECURSIVE Sorted(_)
Sorted(s) == IF s = <<>> THEN <<>> ELSE Insert(Head(s), Sorted(Tail(s)))

\* quantile(q) of a full window, q = qn/qd, with linear interpolation
quantile(w, qn, qd) ==
    LET srt == Sorted(w)
        h == (Len(w) - 1) * qn
        lo == h \div qd
    IN  IF lo + 2 > Len(w) THEN srt[lo + 1]
        ELSE RAdd(srt[lo + 1], RMul(Rat(h % qd, qd), RSub(srt[lo + 2], srt[lo + 1])))

\* ret.rolling(n, min_periods=n).quantile(q) at row t (1-based): NaN until
\* the window holds n values that are not NaN
rolling_quantile(ret, n, t, qn, qd) ==
    IF t < n \/ \E u \in (t - n + 1)..t : IsNaN(ret[u]) THEN NaN
    ELSE quantile([u \in 1..n |-> ret[t - n + u]], qn, qd)

fillna(x, v) == IF IsNaN(x) THEN v ELSE x

clip(x, lo, hi) == IF RLt(x, lo) THEN lo ELSE IF RLt(hi, x) THEN hi ELSE x

\* fut = close.shift(-n); ret = fut / close - 1.0: NaN on the last n rows
forward_ret(close, n) ==
    [t \in 1..Len(close) |->
        IF t + n <= Len(close) THEN RSub(Rat(close[t + n], close[t]), One) ELSE NaN]

\* np.where(ret > thr_long, 1, np.where(ret < -thr_short, -1, 0)): both
\* comparisons are False on NaN
y_class(ret) ==
    [t \in 1..Len(ret) |->
        IF RLt(THR_LONG, ret[t]) THEN 1
        ELSE IF RLt(ret[t], RNeg(THR_SHORT)) THEN -1 ELSE 0]

tp_pct(ret, n) ==
    [t \in 1..Len(ret) |->
        clip(fillna(rolling_quantile(ret, n, t, 4, 5), PCT_FILL), PCT_LO, PCT_HI)]

sl_pct(ret, n) ==
    [t \in 1..Len(ret) |->
        clip(fillna(RNeg(rolling_quantile(ret, n, t, 1, 5)), PCT_FILL), PCT_LO, PCT_HI)]

\* df.dropna(subset=["y_class","tp_pct","sl_pct"]): y_class is an integer
\* column; a row goes when tp_pct or sl_pct is NaN.  row is the 0-based
\* position the row had in the input.
dropna(y, tp, sl) ==
    SelectSeq([t \in 1..Len(y) |->
                  [row |-> t - 1, y_class |-> y[t], tp_pct |-> tp[t], sl_pct |-> sl[t]]],
              LAMBDA r : ~IsNaN(r.tp_pct) /\ ~IsNaN(r.sl_pct))

label_future_return(close, n) ==
    LET ret == forward_ret(close, n)
    IN  dropna(y_class(ret), tp_pct(ret, n), sl_pct(ret, n))

\* the horizons n of the labeler (12 by default)
LabelHorizons == {1, 2}

LbIdle ==
    [pc |-> "off", close |-> <<>>, n |-> 1, ret |-> <<>>, y_class |-> <<>>,
     tp_pct |-> <<>>, sl_pct |-> <<>>, out |-> <<>>]

\* no labeler is running
LabelingOff == lb = LbIdle

\* label_future_return is called on a table with a close column
InitLabeling ==
    \E c \in Seqs(CloseVals, 2) \cup Seqs(CloseVals, MaxBars - 1), n \in LabelHorizons :
        lb = [LbIdle EXCEPT !.pc = "call", !.close = c, !.n = n]

LbShift ==
    /\ lb.pc = "call"
    /\ lb' = [lb EXCEPT !.pc = "ret", !.ret = forward_ret(lb.close, lb.n)]
    /\ UNCHANGED <<schedVars, trainVars, btVars, ftVars>>

LbClass ==
    /\ lb.pc = "ret"
    /\ lb' = [lb EXCEPT !.pc = "class", !.y_class = y_class(lb.ret)]
    /\ UNCHANGED <<schedVars, trainVars, btVars, ftVars>>

LbPct ==
    /\ lb.pc = "class"
    /\ lb' = [lb EXCEPT !.pc = "pct", !.tp_pct = tp_pct(lb.ret, lb.n),
                                     !.sl_pct = sl_pct(lb.ret, lb.n)]
    /\ UNCHANGED <<schedVars, trainVars, btVars, ftVars>>

LbDropna ==
    /\ lb.pc = "pct"
    /\ lb' = [lb EXCEPT !.pc = "done", !.out = dropna(lb.y_class, lb.tp_pct, lb.sl_pct)]
    /\ UNCHANGED <<schedVars, trainVars, btVars, ftVars>>

NextLabeling ==
    \/ LbShift
    \/ LbClass
    \/ LbPct
    \/ LbDropna

(***************************************************************************)
(* The feature pipelines: build_features (src/online_crypto_trainer.py,    *)
(* src/crypto_model_backtest.py) and make_features                         *)
(* (src/feature_engineering.py)                                            *)
(*                                                                         *)
(* A series is a sequence over the bars.  Prices, differences, ranges and  *)
(* the sums tested against zero are exact rationals; a smoothed or         *)
(* standardized quantity is the term App(fn, args) of the operation and    *)
(* the values it reads, so two runs give the same value when they read     *)
(* the same values.  NaN is the float NaN of the engine section.           *)
(***************************************************************************)
\* the rolling window of the model's pipelines (the source rolls over 10, 14
\* and 20 bars, and over 50 for the volume)
Window == 2

\* pd.Series: the values of a series, computed once
Series(f) == SubSeq(f, 1, Len(f))

App(fn, args) == [fn |-> fn, args |-> args]

isna(v) == v = NaN

\* +inf / -inf: a non-zero number over zero
isinf(v) == v # NaN /\ "d" \in DOMAIN v /\ v.d = 0

\* _col / df[name] as a numeric series
column(bars, name) == Series([t \in 1..Len(bars) |-> Rat(bars[t][name], 1)])

\* s.shift(k)
shift(x, k) ==
    Series([t \in 1..Len(x) |-> IF t - k < 1 \/ t - k > Len(x) THEN NaN ELSE x[t - k]])

\* s.diff()
diff(x) ==
    LET prev == shift(x, 1)
    IN  Series([t \in 1..Len(x) |-> RSub(x[t], prev[t])])

\* s.pct_change(k)
pct_change(x, k) ==
    LET prev == shift(x, k)
    IN  Series([t \in 1..Len(x) |-> RSub(RDiv(x[t], prev[t]), One)])

RAbs(x) == IF RLt(x, Zero) THEN RNeg(x) ELSE x

\* the window of rolling(p) at row t holds p values, none of them NaN
FullWindow(x, p, t) == t >= p /\ \A u \in (t - p + 1)..t : ~isna(x[u])

\* a rolling window centred one bar ahead: rows t-p+2 .. t+1
rolling_Ahead(x, p, fn) ==
    Series([t \in 1..Len(x) |->
        IF t + 1 <= Len(x) /\ FullWindow(x, p, t + 1)
        THEN App(fn, SubSeq(x, t - p + 2, t + 1)) ELSE NaN])

\* x.rolling(p).fn(): rows t-p+1 .. t
rolling(x, p, fn) ==
    Series([t \in 1..Len(x) |->
        IF FullWindow(x, p, t) THEN App(fn, SubSeq(x, t - p + 1, t)) ELSE NaN])

\* x.rolling(p).sum() and .mean() as numbers
rolling_sum(x, p) ==
    Series([t \in 1..Len(x) |-> IF FullWindow(x, p, t) THEN RSum(SubSeq(x, t - p + 1, t)) ELSE NaN])

rolling_mean(x, p) ==
    LET sum == rolling_sum(x, p)
    IN  Series([t \in 1..Len(x) |-> RDiv(sum[t], Rat(p, 1))])

\* x.ewm(span or alpha, adjust=False).mean(): a recursion over rows 1..t,
\* NaN until the first value that is not NaN
ewm(x, span) ==
    Series([t \in 1..Len(x) |->
        IF \A u \in 1..t : isna(x[u]) THEN NaN
        ELSE App("ewm", <<Rat(span, 1)>> \o SubSeq(x, 1, t))])

\* an arithmetic expression over the values of one row
rowwise(fn, cols) ==
    Series([t \in 1..Len(cols[1]) |->
        IF \E c \in 1..Len(cols) : isna(cols[c][t]) THEN NaN
        ELSE App(fn, [c \in 1..Len(cols) |-> cols[c][t]])])

\* delta.clip(lower=0) and -delta.clip(upper=0)
clip_lower0(x) == Series([t \in 1..Len(x) |-> IF RLt(x[t], Zero) THEN Zero ELSE x[t]])
neg_clip_upper0(x) == Series([t \in 1..Len(x) |-> IF RLt(Zero, x[t]) THEN Zero ELSE RNeg(x[t])])

ema(s, span) == ewm(s, span)

rsi(close, period) ==
    LET delta == diff(close)
        roll_up == ewm(clip_lower0(delta), period)
        roll_down == ewm(neg_clip_upper0(delta), period)
    IN  rowwise("rsi", <<roll_up, roll_down>>)

macd(close, fast, slow, signal) ==
    LET macd_line == rowwise("sub", <<ema(close, fast), ema(close, slow)>>)
        signal_line == ewm(macd_line, signal)
    IN  [macd |-> macd_line, signal |-> signal_line,
         hist |-> rowwise("sub", <<macd_line, signal_line>>)]

\* the standard deviation of a window is 0 when its values are all equal
IsConstant(window) == \A a, b \in DOMAIN window : window[a] = window[b]

\* (upper - lower).replace(0, nan) is NaN where the standard deviation of
\* the window is 0
bollinger(close, period) ==
    LET mavg == rolling(close, period, "mean")
        mstd == rolling(close, period, "std")
    IN  [mavg |-> mavg,
         upper |-> rowwise("upper", <<mavg, mstd>>),
         lower |-> rowwise("lower", <<mavg, mstd>>),
         bbp |-> Series([t \in 1..Len(close) |->
                    IF isna(mstd[t]) \/ IsConstant(mstd[t].args)
                    THEN NaN
                    ELSE App("bbp", <<close[t], mavg[t], mstd[t]>>)])]

\* max(axis=1) of the three ranges, skipping NaN
true_range(high, low, close) ==
    LET pc == shift(close, 1)
    IN  Series([t \in 1..Len(close) |->
            RMax(RSub(high[t], low[t]),
                 RMax(RAbs(RSub(high[t], pc[t])), RAbs(RSub(low[t], pc[t]))))])

atr(high, low, close, period) == rolling_mean(true_range(high, low, close), period)

adx(high, low, close, period) ==
    LET up_move == diff(high)
        low_diff == diff(low)
        down_move == Series([t \in 1..Len(low) |-> RNeg(low_diff[t])])
        plus_dm == Series([t \in 1..Len(high) |->
                      IF RLt(down_move[t], up_move[t]) /\ RLt(Zero, up_move[t])
                      THEN up_move[t] ELSE Zero])
        minus_dm == Series([t \in 1..Len(high) |->
                      IF RLt(up_move[t], down_move[t]) /\ RLt(Zero, down_move[t])
                      THEN down_move[t] ELSE Zero])
        atr_n == rolling_mean(true_range(high, low, close), period)
        di(sum) == Series([t \in 1..Len(high) |->
                      RDiv(RMul(Rat(100, 1), sum[t]), RMul(atr_n[t], Rat(period, 1)))])
        plus_di == di(rolling_sum(plus_dm, period))
        minus_di == di(rolling_sum(minus_dm, period))
        dx == Series([t \in 1..Len(high) |->
                  LET den == RAdd(plus_di[t], minus_di[t])
                  IN  IF den = Zero THEN NaN
                      ELSE RDiv(RMul(Rat(100, 1), RAbs(RSub(plus_di[t], minus_di[t]))), den)])
    IN  rolling_mean(dx, period)

\* out.replace([inf, -inf], nan).dropna(): the rows with every value finite
dropna_rows(bars, cols, drop_inf) ==
    SelectSeq([t \in 1..Len(bars) |->
                  [time |-> t, bar |-> bars[t],
                   feat |-> [c \in 1..Len(cols) |-> cols[c][t]]]],
              LAMBDA r : \A c \in 1..Len(cols) :
                            ~isna(r.feat[c]) /\ ~(drop_inf /\ isinf(r.feat[c])))

\* build_features with every rolling window of w bars; the momentum lags 3,
\* 7 and 14 become 1, w and w.  A row is the bar, identified by its time,
\* and the columns build_features adds to it.
build_features_table(bars, w) ==
    LET close == column(bars, "Close")
        high == column(bars, "High")
        low == column(bars, "Low")
        m == macd(close, 12, 26, 9)
        bb == bollinger(close, w)
        atr14 == atr(high, low, close, w)
        ret_1d == pct_change(close, 1)
    IN  dropna_rows(bars,
            <<ema(close, 20), ema(close, 50), ema(close, 200),
              rowwise("dist", <<close, ema(close, 20)>>),
              rowwise("dist", <<close, ema(close, 50)>>),
              rowwise("dist", <<close, ema(close, 200)>>),
              rsi(close, 14),
              m.macd, m.signal, m.hist,
              bb.mavg, bb.upper, bb.lower, bb.bbp,
              atr14,
              [t \in 1..Len(bars) |-> RDiv(atr14[t], close[t])],
              adx(high, low, close, w),
              ret_1d,
              rolling(ret_1d, w, "std"),
              pct_change(close, 1), pct_change(close, w), pct_change(close, w)>>,
            TRUE)

\* make_features with the 14-bar window of w bars and the 50-bar volume
\* window of w + 1 bars; its columns are the lower-case open, high, low,
\* close and volume, and df.dropna() keeps inf
make_features(bars, w) ==
    LET close == column(bars, "Close")
        open == column(bars, "Open")
        high == column(bars, "High")
        low == column(bars, "Low")
        volume == column(bars, "Volume")
        tr == [t \in 1..Len(bars) |-> RAbs(RSub(high[t], low[t]))]
        vmean == rolling(volume, w + 1, "mean")
        vstd == rolling(volume, w + 1, "std")
        wick == [t \in 1..Len(bars) |-> App("wick", <<open[t], high[t], low[t], close[t]>>)]
    IN  dropna_rows(bars,
            <<pct_change(close, 1),
              ema(close, 9), ema(close, 20),
              rowwise("ratio", <<ema(close, 9), ema(close, 20)>>),
              rsi(close, 14),
              rolling_mean(tr, w),
              rowwise("vol_z", <<volume, vmean, vstd>>),
              wick, wick>>,
            FALSE)

\* the bars of the inputs: a flat bar, a rising bar, and a falling bar that
\* closes where the flat one does
BarVals ==
    {[Open |-> 2, High |-> 2, Low |-> 2, Close |-> 2, Volume |-> 1],
     [Open |-> 2, High |-> 3, Low |-> 2, Close |-> 3, Volume |-> 2],
     [Open |-> 3, High |-> 3, Low |-> 1, Close |-> 2, Volume |-> 3]}

\* length of the input series: the warm-up of adx, 2 * (Window - 1) rows,
\* and three rows after it
FtBars == 2 * Window + 1

Pipelines == {"build_features", "make_features"}

pipeline(name, bars) ==
    IF name = "build_features" THEN build_features_table(bars, Window)
    ELSE make_features(bars, Window)

FtIdle ==
    [pc |-> "off", pipeline |-> "", bars |-> <<>>, at |-> 0, later |-> <<>>,
     horizon |-> 1, rows |-> <<>>, rows_later |-> <<>>, labeled |-> <<>>]

\* no feature pipeline is running
FeaturesOff == ft = FtIdle

\* a pipeline is called on a bar series; `later` is the series as it is when
\* the bar at position `at` has changed (the bars before it are the same).
\* The changed bar comes after the first row a pipeline can return: the
\* tables have no row before an earlier one.
InitFeatures ==
    \E name \in Pipelines, b \in Seqs(BarVals, FtBars), u \in (Window + 2)..FtBars :
      \E nb \in BarVals \ {b[u]} :
        ft = [FtIdle EXCEPT !.pc = "call", !.pipeline = name, !.bars = b, !.at = u,
                            !.later = [b EXCEPT ![u] = nb]]

\* the pipeline runs on the series
FtBuild ==
    /\ ft.pc = "call"
    /\ ft' = [ft EXCEPT !.pc = "built", !.rows = pipeline(ft.pipeline, ft.bars)]
    /\ UNCHANGED <<schedVars, trainVars, btVars, lbVars>>

\* the pipeline runs on the series with the later bar changed
FtRebuild ==
    /\ ft.pc = "built"
    /\ ft' = [ft EXCEPT !.pc = "rebuilt", !.rows_later = pipeline(ft.pipeline, ft.later)]
    /\ UNCHANGED <<schedVars, trainVars, btVars, lbVars>>

\* init_train / update_train / run: label_future on the table build_features
\* returned
FtLabel ==
    /\ ft.pc = "rebuilt"
    /\ ft.pipeline = "build_features"
    /\ ft' = [ft EXCEPT !.pc = "labeled",
                        !.labeled = label_future([k \in 1..Len(ft.rows) |-> ft.rows[k].bar.Close],
                                                 ft.horizon, LABEL_THRESHOLD)]
    /\ UNCHANGED <<schedVars, trainVars, btVars, lbVars>>

NextFeatures ==
    \/ FtBuild
    \/ FtRebuild
    \/ FtLabel

(***************************************************************************)
(* The specifications                                                      *)
(***************************************************************************)
\* one trainer process at a time (the scheduler's blocking subprocess.run, or
\* an operator at the command line), which may be terminated anywhere
NextTrainer ==
    \/ Tick
    \/ TStart("p1")
    \/ TDownload("p1")
    \/ TLoadModel("p1")
    \/ TLoadScaler("p1")
    \/ TDumpModelOpen("p1")
    \/ TDumpModelWrite("p1")
    \/ TDumpScalerOpen("p1")
    \/ TDumpScalerWrite("p1")
    \/ TSaveStateOpen("p1")
    \/ TSaveStateWrite("p1")
    \/ TCrash("p1")

\* runs of one trainer process within one day, none of them killed
NextIntraday ==
    \/ TStart("p1")
    \/ TDownload("p1")
    \/ TLoadModel("p1")
    \/ TLoadScaler("p1")
    \/ TDumpModelOpen("p1")
    \/ TDumpModelWrite("p1")
    \/ TDumpScalerOpen("p1")
    \/ TDumpScalerWrite("p1")
    \/ TSaveStateOpen("p1")
    \/ TSaveStateWrite("p1")

\* two trainer processes started independently of each other (nothing in
\* main takes a lock)
NextRace ==
    \E p \in Procs :
        \/ TStart(p)
        \/ TDownload(p)
        \/ TLoadModel(p)
        \/ TLoadScaler(p)
        \/ TDumpModelOpen(p)
        \/ TDumpModelWrite(p)
        \/ TDumpScalerOpen(p)
        \/ TDumpScalerWrite(p)
        \/ TSaveStateOpen(p)
        \/ TSaveStateWrite(p)

\* the scheduler variables while only the trainer is modelled
SchedOff ==
    /\ now = [date |-> 1, tod |-> 0]
    /\ STOP = FALSE
    /\ pcS = "off"
    /\ idx = 1
    /\ stateFile = [kind |-> "missing", last_run_date |-> "", done_symbols |-> <<>>]
    /\ today_str = ""
    /\ symbols = <<>>
    /\ STARTUP_RUN = "0"
    /\ SIGNAL_THRESH = ""
    /\ lastRun = NoRun
    /\ attempted = [d \in DateStrs |-> {}]
    /\ failed = [d \in DateStrs |-> {}]
    /\ skipped = {}
    /\ batchRuns = [d \in DateStrs |-> 0]

InitTrainerSpec == InitTrainer /\ SchedOff /\ BacktestOff /\ LabelingOff /\ FeaturesOff

SpecTrainer == InitTrainerSpec /\ [][NextTrainer]_vars

\* the bundle a successful init on FirstInitDay leaves
InitBundle ==
    LET data == Table(download(START_DAY, FirstInitDay, FirstInitDay))
    IN  [model |-> Dumped(<<data>>), scaler |-> Dumped(<<data>>),
         state |-> StateJson(data.last)]

\* the race starts on the first day an update of that bundle has a labeled
\* row, ETH-USD being initialized or not
InitRace ==
    /\ today = FirstInitDay + WarmupRows - SAFETY_DAYS
    /\ interval = 1
    /\ files \in {[s \in TSymbols |-> IF s = "BTC-USD" THEN InitBundle ELSE b] :
                    b \in {NoBundle, InitBundle}}
    /\ procs = [p \in Procs |-> IdleProc]
    /\ committed = files
    /\ SchedOff
    /\ BacktestOff
    /\ LabelingOff
    /\ FeaturesOff

SpecRace == InitRace /\ [][NextRace]_vars

InitIntradaySpec == InitIntraday /\ SchedOff /\ BacktestOff /\ LabelingOff /\ FeaturesOff

SpecIntraday == InitIntradaySpec /\ [][NextIntraday]_vars

InitBacktestSpec == InitBacktest /\ SchedOff /\ TrainerOff /\ LabelingOff /\ FeaturesOff

SpecBacktest == InitBacktestSpec /\ [][NextBacktest]_vars

InitLabelingSpec == InitLabeling /\ SchedOff /\ TrainerOff /\ BacktestOff /\ FeaturesOff

SpecLabeling == InitLabelingSpec /\ [][NextLabeling]_vars

InitFeaturesSpec == InitFeatures /\ SchedOff /\ TrainerOff /\ BacktestOff /\ LabelingOff

SpecFeatures == InitFeaturesSpec /\ [][NextFeatures]_vars

Init == InitSched /\ TrainerOff /\ BacktestOff /\ LabelingOff /\ FeaturesOff

Next ==
    \/ Signal
    \/ Boot
    \/ StartupStep
    \/ PollTick
    \/ BatchStep
    \/ Commit
    \/ CommitWrite
    \/ Cooldown
    \/ Wait

Spec == Init /\ [][Next]_vars

\* the scheduler process keeps running: whenever it can take a step it
\* eventually takes one
SpecLive == Init /\ [][Next]_vars /\ WF_vars(Next)

\* the scheduler when its process may also be killed
NextCrash ==
    \/ Next
    \/ Kill

SpecCrash == Init /\ [][NextCrash]_vars

(***************************************************************************)
(* Claims about the scheduler                                              *)
(***************************************************************************)
\* C1: every trainer process the scheduler launches for a symbol gets its
\* command line accepted (it does not exit with the argument-parsing status 2)
\* and reaches the update operation.
C1_CmdAcceptedByTrainer ==
    lastRun.started => (lastRun.rc # 2 /\ lastRun.executed)

\* C2: a persisted record with last_run_date = D implies that the run for D
\* invoked the update of every configured symbol, and done_symbols lists only
\* symbols that run attempted.
C2_CommitOnlyAfterAllAttempted ==
    stateFile.kind = "json" =>
        /\ Range(read_symbols) \subseteq attempted[stateFile.last_run_date]
        /\ Range(stateFile.done_symbols) \subseteq attempted[stateFile.last_run_date]

\* C5: the batch of a date is started at most once; once a batch is committed
\* the record names its date; and a poll tick starts a batch exactly when it
\* is at the trigger minute and the persisted record does not name today.
C5_Inv ==
    /\ \A d \in DateStrs : batchRuns[d] <= 1
    /\ pcS = "cooldown" =>
          /\ stateFile.kind = "json"
          /\ stateFile.last_run_date = today_str
          /\ batchRuns[today_str] = 1

C5_Tick ==
    (pcS = "poll" /\ pcS' # "poll" /\ ~STOP) =>
        /\ (pcS' = "batch") <=>
              (now.tod = RUN_AT /\
               ~(stateFile.kind = "json" /\ stateFile.last_run_date = strftime(now.date)))
        /\ pcS' = "batch" => batchRuns'[strftime(now.date)] = batchRuns[strftime(now.date)] + 1
        /\ pcS' # "batch" => batchRuns' = batchRuns

C5_SingleTrigger == []C5_Inv /\ [][C5_Tick]_vars

\* C5 witness: a tick at the trigger minute of the first date was skipped
\* because the record named that date, and the batch of the second date was
\* run once and committed.
C5_Witness ==
    /\ strftime(1) \in skipped
    /\ batchRuns[strftime(1)] = 1
    /\ pcS = "cooldown"
    /\ today_str = strftime(2)
    /\ stateFile.last_run_date = strftime(2)
    /\ batchRuns[strftime(2)] = 1

\* C6: the batch loop advances over every symbol whatever the invocations
\* return, leaves early only on STOP, the poll loop ends only on STOP, and
\* the batch is committed after the loop.
C6_BatchIsolation ==
    /\ pcS # "crashed"
    /\ pcS = "exit" => STOP
    /\ pcS = "batch" => attempted[today_str] = {symbols[k] : k \in 1..(idx - 1)}
    /\ (pcS \in {"commit", "cooldown"} /\ ~STOP) => attempted[today_str] = Range(symbols)
    /\ pcS = "cooldown" => (stateFile.kind = "json" /\ stateFile.last_run_date = today_str)

\* C6 witness: a committed batch in which the first symbol's invocation
\* failed and the remaining symbol was attempted all the same.
C6_Witness ==
    /\ pcS = "cooldown"
    /\ ~STOP
    /\ symbols[1] \in failed[today_str]
    /\ attempted[today_str] = Range(symbols)
    /\ stateFile.last_run_date = today_str

\* C11: a process killed inside save_state leaves the state file either as
\* it was or holding the complete new record, never partly written; and the
\* file is written only by the commit that follows the batch loop.
C11_Step ==
    /\ (pcS' = "killed") => stateFile'.kind # "partial"
    /\ (stateFile' # stateFile) => pcS \in {"commit", "commit_w"}

C11_AtomicCommit == [][C11_Step]_vars

\* the trigger minute of date d is over
TriggerMinutePassed(d) == now.date > d \/ (now.date = d /\ now.tod > RUN_AT)

\* C24: the process being alive and not told to stop, the batch of every date
\* whose trigger minute has gone by has been run, whatever the process was
\* doing during that minute (no later tick can start it: the trigger tests
\* the minute for equality).
C24_BatchEveryDay ==
    \A d \in 1..MaxDate :
        (TriggerMinutePassed(d) /\ ~STOP /\ pcS \notin {"exit", "crashed", "killed"})
        => batchRuns[strftime(d)] >= 1

\* C26: once the stop flag is set no further symbol's update is started and
\* no further sleep slice is slept, and the process leaves the poll loop and
\* terminates.
C26_Step ==
    STOP => /\ lastRun' = lastRun
            /\ attempted' = attempted
            /\ now' = now
            /\ STOP'

C26_StopEndsProcess == [][C26_Step]_vars /\ (STOP ~> pcS = "exit")

\* C26 witness: the flag was set after the first symbol of a batch, the
\* second symbol was not started, and the process has terminated.
C26_Witness ==
    /\ STOP /\ pcS = "exit"
    /\ today_str # ""
    /\ symbols # <<>>
    /\ attempted[today_str] = {symbols[1]}
    /\ Len(symbols) > 1

\* C27: the startup one-shot run leaves the state file as it found it, so a
\* poll tick at the trigger minute later on the same date, the record not
\* naming that date, starts the batch.
C27_Step ==
    /\ pcS \in {"boot", "startup"} => stateFile' = stateFile
    /\ (/\ STARTUP_RUN = "1" /\ lastRun # NoRun
        /\ pcS = "poll" /\ pcS' # "poll" /\ ~STOP
        /\ now.date = 1 /\ now.tod = RUN_AT
        /\ load_state(stateFile).last_run_date # strftime(1))
       => (pcS' = "batch" /\ batchRuns'[strftime(1)] = 1)

C27_StartupRunLeavesState == [][C27_Step]_vars

\* C27 witness: the startup run updated a symbol before the trigger minute of
\* the first date, the state file is still absent, and the batch of that
\* date has just been started.
C27_Witness ==
    /\ STARTUP_RUN = "1" /\ lastRun.started
    /\ pcS = "batch" /\ idx = 1
    /\ now.date = 1 /\ today_str = strftime(1)
    /\ attempted[today_str] = {}
    /\ stateFile.kind = "missing"

(***************************************************************************)
(* Claims on the backtest engine (SpecBacktest)                            *)
(***************************************************************************)
\* C4: the raw return recorded for the trade of signal bar i is the forward
\* return of bar i, close[i+horizon]/close[i] - 1; on the worked example the
\* engine returns 2 trades with raw returns 103/100 - 1 and 105/98 - 1 and
\* final equity (103/100) * (105/98).
C4_RawReturnIsSignalBarForward ==
    bt.pc = "done" =>
        /\ \A k \in 1..Len(bt.trades) :
              LET i == bt.signal_days[k]
              IN  bt.trades[k] =
                    RSub(Rat(iloc(bt.close, i + bt.horizon), iloc(bt.close, i)), One)
        /\ (bt.close = WorkedClose /\ bt.proba = WorkedProba) =>
              /\ bt.result.n_trades = 2
              /\ bt.trades = <<RSub(Rat(103, 100), One), RSub(Rat(105, 98), One)>>
              /\ bt.result.equity_last = RMul(Rat(103, 100), Rat(105, 98))


\* the product of (1 + cap * (raw - 2 * cost)) over the raw returns in trades
RECURSIVE Compounded(_, _, _)
Compounded(trades, cost, cap) ==
    IF trades = <<>> THEN One
    ELSE RMul(Compounded(SubSeq(trades, 1, Len(trades) - 1), cost, cap),
              RAdd(One, RMul(cap, RSub(trades[Len(trades)], RMul(Rat(2, 1), cost)))))

\* C13: the final equity is 1.0 multiplied, one trade at a time, by
\* 1 + cap * (raw return - 2 * cost) of every materialized trade; no trade is
\* merged with or netted against another.
C13_EquityCompoundsNetReturns ==
    bt.pc = "done" =>
        /\ bt.result.n_trades = Len(bt.trades)
        /\ bt.result.equity_last = Compounded(bt.trades, bt.cost, bt.cap)

\* the rows whose trade the finished loop has materialized
Traded == {bt.signal_days[k] : k \in 1..Len(bt.trades)}

\* C14: row i produces a trade exactly when proba[i] >= signal_threshold and
\* row i + horizon exists in the table; the other signals are dropped and the
\* call returns, with n_trades the number of such rows.
C14_TradeIffSignalAndExit ==
    bt.pc = "done" =>
        LET Expected == {i \in 0..(Len(bt.proba) - 1) :
                            /\ iloc(bt.proba, i) >= SIGNAL_THRESHOLD
                            /\ i + bt.horizon < Len(bt.proba)}
        IN  /\ Traded = Expected
            /\ bt.result.n_trades = Cardinality(Expected)

\* C14 witness: a finished call that traded a row whose probability equals
\* the threshold and dropped a trailing signal that has no exit row.
C14_Witness ==
    /\ bt.pc = "done"
    /\ \E i \in Traded : iloc(bt.proba, i) = SIGNAL_THRESHOLD
    /\ \E k \in 1..Len(bt.signal_days) :
          /\ bt.signal_days[k] \notin Traded
          /\ bt.signal_days[k] + bt.horizon >= Len(bt.proba)

\* no probability of the table reaches the signal threshold
NoSignal == \A t \in 1..Len(bt.proba) : bt.proba[t] < SIGNAL_THRESHOLD

\* the record of a backtest without trades
Neutral(r) ==
    /\ r.n_trades = 0
    /\ r.hit_rate = Zero /\ r.avg_win = Zero /\ r.avg_loss = Zero
    /\ r.total_return = Zero /\ r.mdd = Zero
    /\ r.equity_last = One

\* C15: on every table without a signal the call ends by
\* returning the neutral record: 0 trades, all statistics 0, equity_last 1.0.
C15_ZeroSignalsNeutral ==
    (NoSignal /\ bt.pc \in {"done", "raised"}) =>
        (bt.pc = "done" /\ Neutral(bt.result))

\* the total return the engine reports for the same call with cost c
TotalReturnAt(c) == backtest_with_cost_cap([bt EXCEPT !.cost = c]).total_return

\* every materialized trade multiplies the equity by a positive factor at cost c
FactorsPositive(c) ==
    \A k \in 1..Len(bt.trades) :
        RLt(Zero, RAdd(One, RMul(bt.cap, RSub(bt.trades[k], RMul(Rat(2, 1), c)))))

\* C16 (as stated): for the same table, horizon, threshold and cap, the total
\* return at any cost c >= the call's cost is not greater than the call's.
C16_CostMonotone ==
    bt.pc = "done" =>
        \A c \in CostVals :
            RLe(bt.cost, c) => ~RLt(bt.result.total_return, TotalReturnAt(c))

\* C16 (amended): the same, for costs c under which every materialized
\* trade's factor 1 + cap * (raw - 2 * c) is positive (and cap >= 0).
C16_CostMonotonePositiveEquity ==
    bt.pc = "done" =>
        \A c \in CostVals :
            (RLe(bt.cost, c) /\ RLe(Zero, bt.cap) /\ FactorsPositive(c)) =>
                ~RLt(bt.result.total_return, TotalReturnAt(c))

\* C16 witness: a finished call with two trades at cost 0 for which a larger
\* cost keeps the factors positive and gives a strictly smaller total return.
C16_Witness ==
    /\ bt.pc = "done"
    /\ bt.cost = Zero
    /\ Len(bt.trades) >= 2
    /\ \E c \in CostVals :
          /\ RLt(Zero, c)
          /\ FactorsPositive(c)
          /\ RLt(TotalReturnAt(c), bt.result.total_return)

\* the close indices (signal index + horizon) of the materialized trades
CloseIdx == {i + bt.horizon : i \in Traded}

\* C17: the equity series has one value per row, is 1.0 before the first
\* trade close, and changes from one row to the next only at the close index
\* of a materialized trade (flat everywhere else, in particular between a
\* trade's open and its close).
C17_EquityStepsAtCloses ==
    bt.pc \in {"loop", "metrics", "done"} =>
        /\ Len(bt.equity) = Len(bt.proba)
        /\ \A k \in 0..(Len(bt.equity) - 1) :
              /\ (\A j \in CloseIdx : k < j) => iloc(bt.equity, k) = One
              /\ (k >= 1 /\ iloc(bt.equity, k) # iloc(bt.equity, k - 1)) => k \in CloseIdx

\* C17 witness: a finished call with two trades whose windows overlap, the
\* equity moving at both close indices and nowhere else.
C17_Witness ==
    /\ bt.pc = "done"
    /\ Len(bt.trades) = 2
    /\ bt.signal_days[2] < bt.signal_days[1] + bt.horizon
    /\ \A k \in 1..(Len(bt.equity) - 1) :
          (iloc(bt.equity, k) # iloc(bt.equity, k - 1)) <=> (k \in CloseIdx)

\* the highest equity of rows 1..t
PeakUpTo(t) ==
    CHOOSE m \in {bt.equity[u] : u \in 1..t} :
        /\ ~IsNaN(m)
        /\ \A u \in 1..t : IsNaN(bt.equity[u]) \/ RLe(bt.equity[u], m)

\* the drawdown of row t against the running maximum
DrawdownAt(t) == RSub(RDiv(bt.equity[t], PeakUpTo(t)), One)

\* C18: the reported max drawdown is the lowest equity[t] / max(equity[0..t]) - 1
\* over the rows and is never positive; the reported total return is
\* equity_last - 1, equity_last being the equity of the last row.
C18_DrawdownAndTotalReturn ==
    bt.pc = "done" =>
        /\ \E t \in 1..Len(bt.equity) : DrawdownAt(t) = bt.result.mdd
        /\ \A t \in 1..Len(bt.equity) : ~RLt(DrawdownAt(t), bt.result.mdd)
        /\ ~RLt(Zero, bt.result.mdd)
        /\ bt.result.equity_last = bt.equity[Len(bt.equity)]
        /\ bt.result.total_return = RSub(bt.result.equity_last, One)

\* C18 witness: a finished call whose equity fell below an earlier peak and
\* ended above 1.0.
C18_Witness ==
    /\ bt.pc = "done"
    /\ Len(bt.trades) >= 2
    /\ RLt(bt.result.mdd, Zero)
    /\ RLt(Zero, bt.result.total_return)

\* C19: for every horizon H >= 1 label_future returns the input rows except the
\* final H, each with target = 1 when close[t+H]/close[t] - 1 > threshold
\* (strictly) and 0 otherwise; every returned row has a forward close.
C19_LabelFuture ==
    bt.pc \in {"loop", "metrics", "done", "raised"} =>
        /\ bt.horizon >= 1
        /\ Len(bt.dfp) = (IF Len(bt.close) >= bt.horizon
                          THEN Len(bt.close) - bt.horizon ELSE 0)
        /\ \A t \in 1..Len(bt.dfp) :
              /\ t + bt.horizon <= Len(bt.close)
              /\ bt.dfp[t].Close = bt.close[t]
              /\ bt.dfp[t].target \in {0, 1}
              /\ bt.dfp[t].target = 1 <=>
                    bt.close[t + bt.horizon] * bt.threshold.d
                        > bt.close[t] * (bt.threshold.d + bt.threshold.n)

\* C19 witness: a labeled table cut by two rows that holds a row above the
\* threshold and a row whose forward return equals the threshold.
C19_Witness ==
    /\ bt.pc = "loop" /\ bt.horizon = 2 /\ Len(bt.dfp) = Len(bt.close) - 2
    /\ \E t \in 1..Len(bt.dfp) : bt.dfp[t].target = 1
    /\ \E t \in 1..Len(bt.dfp) :
          bt.dfp[t].future_ret = bt.threshold /\ bt.dfp[t].target = 0

\* C12: every bar that produces a trade lies in the chronological test split,
\* never among the rows the classifier was fitted on.
C12_TradesOnHeldOutRows ==
    \A k \in 1..Len(bt.trades) : bt.signal_days[k] >= bt.n_train

(***************************************************************************)
(* Claims about the online trainer                                         *)
(***************************************************************************)
Quiescent == \A p \in Procs : ~Running(p)

\* scaler, classifier and watermark of one bundle belong together
Consistent(b) ==
    \/ b = NoBundle
    \/ /\ b.model.kind = "ok" /\ b.scaler.kind = "ok" /\ b.state.kind = "ok"
       /\ b.model.data = b.scaler.data
       /\ Len(b.model.data) > 0
       /\ b.state.last_dt = date_of(b.model.data[Len(b.model.data)].last, interval)

\* C3: whenever no trainer process is running (also after one was
\* terminated), every symbol's scaler, classifier and watermark correspond to
\* the same incorporated data, and the bundle is the one the last
\* successfully finished init or update left.
C3_BundleAlwaysCommitted ==
    Quiescent => \A s \in TSymbols : Consistent(files[s]) /\ files[s] = committed[s]

\* C7: an update of an initialized symbol for which no label-defined bar
\* later than the watermark is available through its end date exits with
\* status 0 and changes no file.
C7_Step ==
    \A p \in Procs :
        LET me == procs[p]
        IN  (/\ me.pc = "download" /\ me.mode = "update"
             /\ procs'[p].pc \notin {"download", "idle"}
             /\ Min(me.end, today) - 1 - HORIZON <= me.wmSeen)
            => (procs'[p].pc = "done" /\ procs'[p].rc = 0 /\ files' = files)

C7_NoOpUpdateSucceeds == [][C7_Step]_vars

\* C8: an update started on a symbol without a readable watermark exits at
\* once with status 1 and writes nothing, and a missing watermark file is
\* created only by the save_state of an init.
C8_Step ==
    /\ \A p \in Procs :
         (/\ ~Running(p) /\ procs'[p] # procs[p]
          /\ procs'[p].mode = "update"
          /\ files[procs'[p].sym].state.kind # "ok")
         => (procs'[p].pc = "done" /\ procs'[p].rc = 1 /\ files' = files)
    /\ \A s \in TSymbols :
         (files[s].state.kind = "missing" /\ files'[s].state.kind # "missing")
         => \E p \in Procs : /\ procs[p].mode = "init" /\ procs[p].sym = s
                             /\ procs[p].pc = "save_state"

C8_UpdateNeedsInit == [][C8_Step]_vars

\* C8 witness: an update on a symbol that has no file at all has exited with
\* status 1, and the symbol still has no file.
C8_Witness ==
    \E p \in Procs :
        /\ procs[p].pc = "done" /\ procs[p].mode = "update"
        /\ procs[p].rc = 1 /\ procs[p].wmSeen = None
        /\ files[procs[p].sym] = NoBundle

\* C9: an update that runs alone on a symbol whose bundle is unreadable or
\* inconsistent never exits with status 0 and never writes a file.
C9_Step ==
    \A p \in Procs :
        LET me == procs[p]
        IN  (/\ me.mode = "update"
             /\ me.pc \in {"download", "load_model", "load_scaler"}
             /\ \A q \in Procs \ {p} : ~Running(q)
             /\ BundleCorrupt(files[me.sym])
             /\ procs'[p].pc \notin {me.pc, "idle"})
            => (procs'[p].pc = "done" /\ procs'[p].rc # 0 /\ files' = files)

C9_CorruptBundleFails == [][C9_Step]_vars

\* the section of update between loading the estimators and writing the
\* watermark, and the section of init that writes the bundle
InReadModifyWrite(p) ==
    /\ procs[p].mode = "update"
    /\ procs[p].pc \in {"load_scaler", "dump_model", "dump_model_w", "dump_scaler",
                        "dump_scaler_w", "save_state", "save_state_w"}

InPersist(p) ==
    procs[p].pc \in {"load_scaler", "dump_model", "dump_model_w", "dump_scaler",
                     "dump_scaler_w", "save_state", "save_state_w"}

\* C10: no update of a symbol is inside its load / fit / persist section
\* while another init or update of the same symbol is inside its own, and
\* when all processes have finished every bundle is a consistent one.
C10_AtomicReadModifyWrite ==
    /\ \A p, q \in Procs :
         (p # q /\ procs[p].sym = procs[q].sym) => ~(InReadModifyWrite(p) /\ InPersist(q))
    /\ Quiescent => \A s \in TSymbols : Consistent(files[s])

\* C22: once a run has left a symbol's bundle, its scaler, classifier and
\* watermark files are changed only by an update of that symbol: no init
\* overwrites them.
C22_Step ==
    \A s \in TSymbols :
        (committed[s] # NoBundle /\ files'[s] # files[s])
        => \E p \in Procs : /\ procs[p].sym = s /\ procs[p].mode = "update"
                            /\ InPersist(p)

C22_BundleChangedOnlyByUpdate == [][C22_Step]_vars

\* C23: an init whose labeled table is empty exits with an error and writes
\* no classifier, scaler or watermark file; a symbol without a watermark file
\* gets one only from an init that had at least one labeled row.
C23_Step ==
    /\ \A p \in Procs :
         LET me == procs[p]
         IN  (/\ me.pc = "download" /\ me.mode = "init"
              /\ procs'[p].pc \notin {"download", "idle"}
              /\ IsEmpty(Table(bars_of(download(START_DAY, me.end, today), interval))))
             => (procs'[p].pc = "done" /\ procs'[p].rc # 0 /\ files' = files)
    /\ \A s \in TSymbols :
         (files[s].state.kind = "missing" /\ files'[s].state.kind # "missing")
         => \E p \in Procs : /\ procs[p].mode = "init" /\ procs[p].sym = s
                             /\ ~IsEmpty(procs[p].data)

C23_EmptyInitFails == [][C23_Step]_vars

\* C23 witness: on a day whose window has bars but no labeled row, an init
\* has exited with status 1 and the symbol has no file.
C23_Witness ==
    \E p \in Procs :
        /\ today = FirstDay
        /\ ~download(START_DAY, today, today).empty
        /\ procs[p].pc = "done" /\ procs[p].mode = "init" /\ procs[p].rc = 1
        /\ files[procs[p].sym] = NoBundle

\* the bars whose features and label are defined on the data available on a
\* day: past the warm-up of the series that starts on START_DAY, with a close
\* HORIZON bars later
LabelDefined(d, day) == START_DAY + WarmupRows <= d /\ d + HORIZON <= day - 1

\* the bar of day d is in one of the batches an estimator was fitted on
Incorporated(est, d) == \E k \in 1..Len(est) : est[k].first <= d /\ d <= est[k].last

\* C25: after init and any successful updates, every bar with a defined label
\* up to the watermark has been fitted into the persisted scaler and
\* classifier: moving the watermark forward skips no such bar.
C25_NoBarSkipped ==
    \A s \in TSymbols :
        (Quiescent /\ Consistent(files[s]) /\ files[s] # NoBundle) =>
            \A d \in START_DAY..files[s].state.last_dt :
                LabelDefined(d, today) =>
                    /\ Incorporated(files[s].model.data, d)
                    /\ Incorporated(files[s].scaler.data, d)

\* the batch that ends on day d is in what the file holds
HoldsBatch(f, d) ==
    /\ f.kind = "ok"
    /\ \E k \in 1..Len(f.data) : f.data[k].last = d

\* C30: the watermark file is written only after the classifier and scaler
\* files, so in every state, also one a crash in the middle of an update
\* leaves, a persisted watermark D implies that the persisted classifier and
\* scaler include the batch that ends at D.
C30_Step ==
    \A s \in TSymbols :
        (files'[s].state # files[s].state)
        => \E p \in Procs :
              /\ procs[p].sym = s
              /\ procs[p].pc \in {"save_state", "save_state_w"}
              /\ HoldsBatch(files[s].model, procs[p].data.last)
              /\ HoldsBatch(files[s].scaler, procs[p].data.last)

C30_Inv ==
    \A s \in TSymbols :
        files[s].state.kind = "ok" =>
            /\ HoldsBatch(files[s].model, files[s].state.last_dt)
            /\ HoldsBatch(files[s].scaler, files[s].state.last_dt)

C30_WatermarkImpliesEstimators == [][C30_Step]_vars /\ []C30_Inv

\* C28: an update that completes never leaves a watermark earlier than the
\* one that was persisted when it started, whatever the interval, horizon
\* and end date.
C28_Step ==
    \A p \in Procs :
        (/\ procs[p].mode = "update" /\ procs[p].pc = "save_state_w"
         /\ procs'[p].pc = "done")
        => load_state_trainer(files'[procs[p].sym].state) >= procs[p].wmSeen

C28_WatermarkMonotone == [][C28_Step]_vars

(***************************************************************************)
(* Claims on the take-profit / stop-loss labeler (SpecLabeling)            *)
(***************************************************************************)
\* C20: label_future_return with horizon n assigns no label to the final n
\* rows of its input: its output holds no row whose forward return over n
\* bars is undefined.
C20_NoLabelOnFinalRows ==
    lb.pc = "done" =>
        \A k \in 1..Len(lb.out) : lb.out[k].row + lb.n < Len(lb.close)


(***************************************************************************)
(* Claims on the feature pipelines (SpecFeatures)                          *)
(***************************************************************************)
\* the rows of a table for the times before time t
RowsBefore(rows, t) == SelectSeq(rows, LAMBDA r : r.time < t)

\* C21: for every bar series and every time t, changing a bar strictly after
\* t changes neither the feature row the pipeline computes for t nor whether
\* a row for t is present.  The bar at position ft.at is the changed one:
\* the rows for the times before it are the same in both tables.
C21_NoLookahead ==
    ft.pc \in {"rebuilt", "labeled"}
    => RowsBefore(ft.rows, ft.at) = RowsBefore(ft.rows_later, ft.at)

\* build_features was run on a series and on the series with its last bar
\* changed: both tables hold the same rows before the last bar and a row for
\* the last bar, and the row of the changed bar differs
C21_Witness ==
    /\ ft.pc = "rebuilt"
    /\ ft.pipeline = "build_features"
    /\ ft.at = FtBars
    /\ Len(RowsBefore(ft.rows, ft.at)) >= 1
    /\ Len(RowsBefore(ft.rows, ft.at)) < Len(ft.rows)
    /\ Len(ft.rows_later) = Len(ft.rows)
    /\ ft.rows_later # ft.rows

\* C29: the forward return and the target of every labeled row at bar t come
\* from the close exactly H bars after t in the original bar series, also
\* when build_features dropped rows in the interior of the series.
C29_ForwardReturnFromOriginalSeries ==
    ft.pc = "labeled"
    => \A k \in 1..Len(ft.labeled) :
          LET t == ft.rows[k].time
              ret == RSub(Rat(ft.bars[t + ft.horizon].Close, ft.bars[t].Close), One)
          IN  /\ t + ft.horizon <= Len(ft.bars)
              /\ ft.labeled[k].future_ret = ret
              /\ ft.labeled[k].target = (IF RLt(LABEL_THRESHOLD, ret) THEN 1 ELSE 0)

====
